---------------------------- MODULE Spec2Model ----------------------------
(***************************************************************************)
(* Model of the memo search client (src/opensearch_client.py) and of the   *)
(* standalone ingestion utility (src/post_memo_to_opensearch.py).          *)
(*                                                                         *)
(* The client is synchronous and keeps no state of its own between calls:  *)
(* the only persistent state is the engine's index.  Every public          *)
(* operation is one action; the engine (an external service) answers each  *)
(* request nondeterministically within its protocol.                       *)
(***************************************************************************)
EXTENDS Integers, Sequences, FiniteSets, TLC

VARIABLES
    store,   \* the engine's index: a set of [_id, _source] entries
    pre,     \* the engine's index as it was when the last call started
    op,      \* name of the call whose outcome stands, "none" between calls
    arg,     \* its arguments
    wire,    \* the request payloads the call sent to the engine, in order
    resp,    \* the responses the engine gave, in order
    ret,     \* how the call ended: [kind |-> "return" | "raise", ...]
    defaults,\* the contents of the default list objects of build_agent_request
    held,    \* the request dict the caller keeps, and the trees compiled from it
    seen     \* the calls made so far on kept requests (history)

vars == <<store, pre, op, arg, wire, resp, ret, defaults, held, seen>>

(***************************************************************************)
(* Bounds of the model.                                                    *)
(***************************************************************************)
MaxBatch == 3       \* longest batch given to bulk_upsert
MaxChunk == 3       \* largest chunk_size given to bulk_upsert
MaxMemos == 4       \* longest memo list given to the ingestion utility
MaxMsm == 2         \* minimum_should_match ranges over -1..MaxMsm and LargeInt
MaxBoost == 2       \* boost ranges over 0..MaxBoost (1 stands for 1.0)
MaxTotal == 7       \* the engine reports a total of 0 or of MaxTotal
LargeInt == 10000   \* a "very large" page size, offset or threshold

(***************************************************************************)
(* Python values that may be None are tagged with their type.              *)
(***************************************************************************)
PyNone == [t |-> "None"]
PyInt(n) == [t |-> "int", v |-> n]
PyBool(b) == [t |-> "bool", v |-> b]
PyStr(s) == [t |-> "str", v |-> s]
PyList(s) == [t |-> "list", v |-> s]
PyDict(d) == [t |-> "dict", v |-> d]

EmptyDict == [k \in {} |-> PyNone]

\* Python truthiness: bool(x)
Truthy(x) ==
    CASE x.t = "None" -> FALSE
      [] x.t = "int"  -> x.v # 0
      [] x.t = "bool" -> x.v
      [] x.t = "str"  -> x.v # ""
      [] x.t = "list" -> x.v # <<>>
      [] x.t = "dict" -> DOMAIN x.v # {}

\* Python `x or y`
Or(x, y) == IF Truthy(x) THEN x ELSE y

\* Python `d.get(k, default)` on a mapping d
Get(d, k, default) == IF k \in DOMAIN d THEN d[k] ELSE default

\* d with d[k] = v set (d a mapping with string keys)
Put(d, k, v) == [x \in DOMAIN d \cup {k} |-> IF x = k THEN v ELSE d[x]]

(***************************************************************************)
(* Query builders                                                          *)
(***************************************************************************)

DEFAULT_FACET_FIELDS == <<"industry", "sector", "region", "currency">>

\* a mutant of FacetLoop: one field forgotten
FacetLoopShort == <<"industry", "region", "currency">>

\* the literal list the loop of _criteria_filters walks
FacetLoop == <<"industry", "sector", "region", "currency">>

\* _criteria_filters(criteria): criteria is a mapping field -> list | None
RECURSIVE FiltersFrom(_, _)
FiltersFrom(criteria, i) ==
    IF i = 0 THEN <<>>
    ELSE LET field == FacetLoop[i]
             vals == Or(Get(criteria, field, PyNone), PyList(<<>>))
             sofar == FiltersFrom(criteria, i - 1)
         IN  IF Truthy(vals)
             THEN Append(sofar, [terms |-> (field :> vals)])
             ELSE sofar

CriteriaFilters(criteria) == FiltersFrom(criteria, Len(FacetLoop))

\* a mutant of BoostIsSet: the comparison with 1.0 is forgotten
BoostIsNotNone(boost) == boost.t # "None"

\* line 197: boost is not None and boost != 1.0
BoostIsSet(boost) == boost.t # "None" /\ boost.v # 1

\* _multi_match_clause(tq): tq is a mapping with the keys of TextQuery
MultiMatchClause(tq) ==
    LET mm == [query    |-> tq["query"],
               fields   |-> tq["fields"],
               type     |-> Get(tq, "type", PyStr("best_fields")),
               operator |-> Get(tq, "operator", PyStr("or"))]
        boost == Get(tq, "boost", PyNone)
    IN  [multi_match |-> IF BoostIsSet(boost) THEN Put(mm, "boost", boost) ELSE mm]

\* [self._multi_match_clause(tq) for tq in tqs]
ClausesOf(tqs) == [i \in 1..Len(tqs) |-> MultiMatchClause(tqs[i])]

\* a mutant of EffectiveMsm: the correction is not applied
EffectiveMsmUncorrected(should, msm) == msm

\* lines 216-219: the minimum_should_match correction
EffectiveMsm(should, msm) == IF should = <<>> THEN PyInt(0) ELSE msm

\* build_bool_query(request)
BuildBoolQuery(request) ==
    LET criteria == Or(Get(request, "criteria", PyNone), PyDict(EmptyDict))
        filters == CriteriaFilters(criteria.v)
        must == ClausesOf(Or(Get(request, "must_text", PyList(<<>>)), PyList(<<>>)).v)
        should == ClausesOf(Or(Get(request, "should_text", PyList(<<>>)), PyList(<<>>)).v)
        msm == Get(request, "minimum_should_match", PyInt(1))
    IN  [bool |-> [filter |-> filters,
                   must |-> must,
                   should |-> should,
                   minimum_should_match |-> EffectiveMsm(should, msm)]]

(***************************************************************************)
(* Search                                                                  *)
(***************************************************************************)

\* a mutant of PageOffset: only the key 'from_' is read
PageOffsetFromUnderscoreOnly(request) == Get(request, "from_", PyInt(0))

\* line 250: request.get("from_", request.get("from", 0))
PageOffset(request) == Get(request, "from_", Get(request, "from", PyInt(0)))

\* line 249: request.get("size", 10)
PageSize(request) == Get(request, "size", PyInt(10))

\* lines 261-268: source filtering
SourceFilter(request) ==
    LET src_in == Get(request, "source_includes", PyNone)
        src_ex == Get(request, "source_excludes", PyNone)
        inc == IF src_in.t # "None" THEN "includes" :> src_in ELSE EmptyDict
        exc == IF src_ex.t # "None" THEN "excludes" :> src_ex ELSE EmptyDict
    IN  IF src_in.t # "None" \/ src_ex.t # "None"
        THEN "_source" :> (inc @@ exc)
        ELSE EmptyDict

\* lines 270-274: one terms aggregation per facet field, keyed "<f>_facet"
FacetAggs(facet_fields) ==
    [i \in 1..Len(facet_fields) |->
        [name |-> <<facet_fields[i], "_facet">>,
         terms |-> [field |-> facet_fields[i], size |-> 50]]]

\* lines 243-274: the payload search sends
SearchBody(request, facets, facet_fields) ==
    LET ff == IF facet_fields = <<>> THEN DEFAULT_FACET_FIELDS ELSE facet_fields
        base == [query |-> BuildBoolQuery(request),
                 size |-> PageSize(request),
                 from |-> PageOffset(request),
                 track_total_hits |-> Get(request, "track_total_hits", PyBool(TRUE))]
        explain == IF Truthy(Get(request, "explain", PyNone))
                   THEN "explain" :> PyBool(TRUE) ELSE EmptyDict
        sort == IF Truthy(Get(request, "sort", PyNone))
                THEN "sort" :> request["sort"] ELSE EmptyDict
        aggs == IF facets THEN "aggs" :> FacetAggs(ff) ELSE EmptyDict
    IN  base @@ explain @@ sort @@ SourceFilter(request) @@ aggs

\* lines 279-282: the total of a response, normalised
TotalValue(r) ==
    LET total == Get(Get(r, "hits", EmptyDict), "total", PyDict(EmptyDict))
    IN  IF total.t = "dict" THEN Get(total.v, "value", PyNone) ELSE total

\* lines 284-290: the envelope search returns
Envelope(r, body) ==
    [total |-> TotalValue(r),
     hits |-> Get(Get(r, "hits", EmptyDict), "hits", <<>>),
     aggregations |-> Get(r, "aggregations", EmptyDict),
     raw |-> r,
     query |-> body]

(***************************************************************************)
(* The agent's request builder                                             *)
(***************************************************************************)

\* the parameters of build_agent_request whose default is a list object
\* made once, when the method is defined (line 299)
AgentParams == {"industry", "region", "currency", "query"}

\* the list a parameter is bound to: the caller's, or the shared default
Bound(defs, given, p) == IF p \in DOMAIN given THEN given[p] ELSE defs[p]

\* TextQuery(query=q, fields=[...]) with the fields the model defaults
AgentTextQuery(q) ==
    [query |-> PyStr(q),
     fields |-> PyList(<<"riskFactors", "keyCommitteeDiscussionPoints">>),
     type |-> PyStr("best_fields"),
     operator |-> PyStr("or"),
     boost |-> PyInt(1)]

\* lines 303-314: the SearchRequest build_agent_request makes; pydantic
\* copies the lists it validates, so the request holds values
AgentRequest(defs, given, size) ==
    LET query == Bound(defs, given, "query")
    IN  [criteria |-> PyDict([industry |-> PyList(Bound(defs, given, "industry")),
                              sector |-> PyList(<<>>),
                              region |-> PyList(Bound(defs, given, "region")),
                              currency |-> PyList(Bound(defs, given, "currency"))]),
         should_text |-> PyList([i \in 1..Len(query) |-> AgentTextQuery(query[i])]),
         must_text |-> PyList(<<>>),
         minimum_should_match |-> PyInt(1),
         size |-> size,
         from_ |-> PyInt(0),
         track_total_hits |-> PyBool(TRUE),
         explain |-> PyBool(FALSE),
         sort |-> PyNone,
         source_includes |-> PyNone,
         source_excludes |-> PyNone]

\* req.model_dump(by_alias=True), line 297: from_ goes out as "from"
ModelDump(req) ==
    [k \in (DOMAIN req \ {"from_"}) \cup {"from"} |->
        IF k = "from" THEN req["from_"] ELSE req[k]]

\* a mutant of DefaultsAfterBuild: an omitted currency is defaulted in place
DefaultsAfterBuildAppending(defs, given) ==
    [p \in DOMAIN defs |->
        IF p = "currency" /\ p \notin DOMAIN given /\ defs[p] = <<>>
        THEN <<"USD">> ELSE defs[p]]

\* lines 303-315 read the parameter lists and never write to them
DefaultsAfterBuild(defs, given) == defs

\* a mutant of RequestAfterCompile: the corrected threshold is written back
RequestAfterCompileWritesBack(request) ==
    Put(request, "minimum_should_match", BuildBoolQuery(request).bool.minimum_should_match)

\* lines 205-228 read the request with get and never assign into it
RequestAfterCompile(request) == request

(***************************************************************************)
(* The engine (external): its index and its bulk protocol                  *)
(***************************************************************************)
MEMO_INDEX == "memo"

\* a document the mapping cannot parse (an object where text is mapped)
Rejects(src) == src["riskFactors"].t = "dict"

Exists(st, id) == \E d \in st : d._id = id

\* "index" semantics: create, or fully replace, the document under id
EngineIndex(st, id, src) ==
    {d \in st : d._id # id} \cup {[_id |-> id, _source |-> src]}

\* the engine's answer to one accepted or rejected write
ItemInfo(st, a) ==
    LET head == [_index |-> a._index, _id |-> a._id]
    IN  IF Rejects(a._source)
        THEN head @@ [status |-> 400,
                      error |-> [type |-> "mapper_parsing_exception",
                                 reason |-> <<a._id, a._source>>]]
        ELSE IF a._op_type = "create" /\ Exists(st, a._id)
        THEN head @@ [status |-> 409,
                      error |-> [type |-> "version_conflict_engine_exception",
                                 reason |-> <<a._id, a._source>>]]
        ELSE head @@ [status |-> IF Exists(st, a._id) THEN 200 ELSE 201]

ItemOk(info) == 200 <= info["status"] /\ info["status"] < 300

\* the engine applies the actions of one bulk request in order
RECURSIVE EngineBulk(_, _)
EngineBulk(st, actions) ==
    IF actions = <<>> THEN [store |-> st, items |-> <<>>]
    ELSE LET a == Head(actions)
             info == ItemInfo(st, a)
             st1 == IF ItemOk(info) THEN EngineIndex(st, a._id, a._source) ELSE st
             rest == EngineBulk(st1, Tail(actions))
         IN  [store |-> rest.store,
              items |-> <<(a._op_type :> info)>> \o rest.items]

\* the body of the engine's bulk response
BulkResponse(items) ==
    [errors |-> \E i \in 1..Len(items) : \E k \in DOMAIN items[i] : "error" \in DOMAIN items[i][k],
     items |-> items]

(***************************************************************************)
(* CRUD: upsert_memo and bulk_upsert                                       *)
(***************************************************************************)

\* a mutant of GenAction: the action creates instead of indexing
GenActionCreate(index, doc_id, doc) ==
    [_op_type |-> "create", _index |-> index, _id |-> doc_id, _source |-> doc]

\* lines 148-155: the action gen_actions yields for one (doc_id, doc)
GenAction(index, doc_id, doc) ==
    [_op_type |-> "index", _index |-> index, _id |-> doc_id, _source |-> doc]

GenActions(index, docs) ==
    [i \in 1..Len(docs) |-> GenAction(index, docs[i][1], docs[i][2])]

\* a mutant of RaiseOnError: the helper's default
RaiseOnErrorDefault == TRUE

\* line 157: raise_on_error=False
RaiseOnError == FALSE

ItemFailed(it) == \E k \in DOMAIN it : ~ItemOk(it[k])

\* a mutant of ChunkSuccess: a chunk with a failed item counts for nothing
ChunkSuccessAllOrNothing(items) ==
    IF \E i \in 1..Len(items) : ItemFailed(items[i]) THEN 0 ELSE Len(items)

\* the items of one chunk's response the helper counts as successes
ChunkSuccess(items) == Len(SelectSeq(items, LAMBDA it : ~ItemFailed(it)))

\* the last action of the chunk that starts at action `from`
ChunkEnd(from, chunk_size, n) ==
    IF from + chunk_size - 1 < n THEN from + chunk_size - 1 ELSE n

\* helpers.bulk over actions[from..], chunk by chunk.  failAt is the number
\* of the chunk whose request fails in transport (0: none does); nth is the
\* number of the chunk about to be sent.
RECURSIVE HelpersBulk(_, _, _, _, _, _, _)
HelpersBulk(st, actions, from, chunk_size, nth, failAt, acc) ==
    IF from > Len(actions)
    THEN [kind |-> "return", store |-> st, wire |-> acc.wire, resp |-> acc.resp,
          value |-> [success |-> acc.success, errors |-> acc.errors]]
    ELSE LET to == ChunkEnd(from, chunk_size, Len(actions))
             chunk == SubSeq(actions, from, to)
             sent == Append(acc.wire, chunk)
         IN  IF nth = failAt
             THEN \* raise_on_exception is left at its default: the error propagates
                  [kind |-> "raise", store |-> st, wire |-> sent, resp |-> acc.resp,
                   exc |-> "TransportError"]
             ELSE LET r == EngineBulk(st, chunk)
                      body == BulkResponse(r.items)
                      bad == SelectSeq(r.items, ItemFailed)
                      good == ChunkSuccess(r.items)
                      got == Append(acc.resp, body)
                  IN  IF RaiseOnError /\ bad # <<>>
                      THEN [kind |-> "raise", store |-> r.store, wire |-> sent,
                            resp |-> got, exc |-> "BulkIndexError"]
                      ELSE HelpersBulk(r.store, actions, to + 1, chunk_size, nth + 1, failAt,
                                       [success |-> acc.success + good,
                                        errors |-> acc.errors \o bad,
                                        wire |-> sent, resp |-> got])

\* bulk_upsert(docs, chunk_size)
BulkUpsertRun(st, docs, chunk_size, failAt) ==
    HelpersBulk(st, GenActions(MEMO_INDEX, docs), 1, chunk_size, 1, failAt,
                [success |-> 0, errors |-> <<>>, wire |-> <<>>, resp |-> <<>>])

\* upsert_memo(doc_id, doc): one index request; the engine's refusal, or a
\* transport failure, reaches the caller as an exception
UpsertMemoRun(st, doc_id, doc, transportFails) ==
    LET a == GenAction(MEMO_INDEX, doc_id, doc)
        info == ItemInfo(st, a)
    IN  IF transportFails
        THEN [kind |-> "raise", store |-> st, wire |-> <<a>>, resp |-> <<>>,
              exc |-> "TransportError"]
        ELSE IF ~ItemOk(info)
        THEN [kind |-> "raise", store |-> st, wire |-> <<a>>, resp |-> <<info>>,
              exc |-> "RequestError"]
        ELSE [kind |-> "return", store |-> EngineIndex(st, doc_id, doc),
              wire |-> <<a>>, resp |-> <<info>>, value |-> info]

(***************************************************************************)
(* The ingestion utility: memo_to_bulk_lines and bulk_index                *)
(***************************************************************************)

\* json.dumps and the engine's parse of a line
JsonDumps(x) == [json |-> x]
JsonLoads(line) == line.json

\* memo_to_bulk_lines(memo)
MemoToBulkLines(memo) ==
    <<JsonDumps([index |-> [_index |-> MEMO_INDEX, _id |-> memo["memoId"]]]),
      JsonDumps(memo)>>

\* main, lines 108-110: the lines of all memos, in order
RECURSIVE AllBulkLines(_)
AllBulkLines(memos) ==
    IF memos = <<>> THEN <<>>
    ELSE MemoToBulkLines(Head(memos)) \o AllBulkLines(Tail(memos))

\* the engine reads an NDJSON payload as (action, source) pairs
EnginePairs(lines) ==
    [i \in 1..(Len(lines) \div 2) |->
        LET head == JsonLoads(lines[2 * i - 1])
        IN  [_op_type |-> "index", _index |-> head.index._index,
             _id |-> head.index._id, _source |-> JsonLoads(lines[2 * i])]]

\* next(iter(it.values()))
FirstValue(it) == it[CHOOSE k \in DOMAIN it : TRUE]

\* a mutant of SampleFull: off by one
SampleFullOffByOne(errors) == Len(errors) > 3

\* line 76: len(errors) >= 3
SampleFull(errors) == Len(errors) >= 3

\* lines 71-77: the sample of error payloads
RECURSIVE ErrorSample(_, _)
ErrorSample(items, errors) ==
    IF items = <<>> THEN errors
    ELSE LET action == FirstValue(Head(items))
             errs == IF "error" \in DOMAIN action
                     THEN Append(errors, action["error"]) ELSE errors
         IN  IF SampleFull(errs) THEN errs ELSE ErrorSample(Tail(items), errs)

\* bulk_index(ndjson_lines)
BulkIndexRun(st, lines, httpFails) ==
    IF httpFails
    THEN \* requests.post fails, or raise_for_status raises
         [kind |-> "raise", store |-> st, wire |-> <<lines>>, resp |-> <<>>,
          exc |-> "HTTPError"]
    ELSE LET r == EngineBulk(st, EnginePairs(lines))
             result == BulkResponse(r.items)
         IN  IF result.errors
             THEN [kind |-> "raise", store |-> r.store, wire |-> <<lines>>,
                   resp |-> <<result>>, exc |-> "RuntimeError",
                   sample |-> ErrorSample(Get(result, "items", <<>>), <<>>)]
             ELSE [kind |-> "return", store |-> r.store, wire |-> <<lines>>,
                   resp |-> <<result>>, value |-> PyNone]

(***************************************************************************)
(* Inputs                                                                  *)
(***************************************************************************)

\* the mappings that carry key k with a value of vals, or no key k
OptKey(k, vals) == {EmptyDict} \cup {k :> v : v \in vals}

FacetValues == {PyNone, PyList(<<>>), PyList(<<"Healthcare", "Industrials">>)}

\* criteria mappings, with a key the compiler does not know
Criterias ==
    UNION {[K -> FacetValues] :
              K \in SUBSET {"industry", "sector", "region", "currency", "country"}}

Boosts == {PyNone} \cup {PyInt(b) : b \in 0..MaxBoost}

TextQueries ==
    {[query |-> PyStr("fuel price"), fields |-> PyList(f)] @@ ty @@ o @@ b :
        f \in {<<"riskFactors">>, <<"riskFactors", "keyCommitteeDiscussionPoints">>},
        ty \in OptKey("type", {PyStr("phrase")}),
        o \in OptKey("operator", {PyStr("and")}),
        b \in OptKey("boost", Boosts)}

Thresholds == {PyInt(n) : n \in (-1..MaxMsm) \cup {LargeInt}}

TqPlain == [query |-> PyStr("fuel price"), fields |-> PyList(<<"riskFactors">>)]
TqNeutral == TqPlain @@ ("boost" :> PyInt(1))
TqBoosted == TqPlain @@ ("boost" :> PyInt(MaxBoost))

TextLists == {PyNone, PyList(<<>>), PyList(<<TqNeutral>>), PyList(<<TqPlain, TqBoosted>>)}

CriteriaSamples ==
    {PyNone, PyDict(EmptyDict),
     PyDict([industry |-> PyList(<<"Healthcare">>), sector |-> PyList(<<>>)]),
     PyDict([region |-> PyList(<<"India", "US">>), country |-> PyList(<<"IN">>)])}

Requests ==
    {c @@ m @@ sh @@ t :
        c \in OptKey("criteria", CriteriaSamples),
        m \in OptKey("must_text", {PyNone, PyList(<<TqBoosted>>)}),
        sh \in OptKey("should_text", TextLists),
        t \in OptKey("minimum_should_match", Thresholds)}

PageValues == {PyInt(n) : n \in {-1, 0, LargeInt}}

Extras ==
    {EmptyDict, "explain" :> PyBool(TRUE), "sort" :> PyList(<<"_score">>),
     "source_includes" :> PyList(<<"clientName">>),
     "source_excludes" :> PyList(<<"riskFactors">>)}

SearchRequests ==
    {q @@ sz @@ f @@ fu @@ tt @@ x :
        q \in {EmptyDict,
               [criteria |-> PyDict([industry |-> PyList(<<"Healthcare">>)]),
                should_text |-> PyList(<<TqPlain>>)]},
        sz \in OptKey("size", PageValues),
        f \in OptKey("from", PageValues),
        fu \in OptKey("from_", PageValues),
        tt \in OptKey("track_total_hits", {PyBool(FALSE)}),
        x \in Extras}

\* what the engine may answer to a search payload: the total is a bare number
\* or a {value, relation} structure, and is left out when the payload turns
\* total tracking off
Totals ==
    UNION {{PyInt(n), PyDict([value |-> PyInt(n), relation |-> "eq"])} : n \in {0, MaxTotal}}

SearchResponses(body) ==
    LET hits == {[hits |-> <<>>]} \cup {[hits |-> <<[_id |-> "M1", _score |-> 1]>>]}
        total == IF body["track_total_hits"] = PyBool(FALSE)
                 THEN {EmptyDict} ELSE {"total" :> t : t \in Totals}
        aggs == IF "aggs" \in DOMAIN body
                THEN {"aggregations" :> [industry_facet |-> <<>>]} ELSE {EmptyDict}
    IN  {("hits" :> (h @@ t)) @@ a : h \in hits, t \in total, a \in aggs}

DocIds == {"M1", "M2"}
Texts == {PyStr("v1"), PyStr("v2")}
Unparsable == PyDict(EmptyDict)
Memos == {[memoId |-> id, riskFactors |-> x] : id \in DocIds, x \in Texts \cup {Unparsable}}

\* (doc_id, doc) pairs: each memo under its memoId
Pairs == {<<m["memoId"], m>> : m \in Memos}

SeqsUpTo(S, n) == UNION {[1..k -> S] : k \in 0..n}

NumChunks(n, chunk_size) == (n + chunk_size - 1) \div chunk_size

(***************************************************************************)
(* The state machine                                                       *)
(***************************************************************************)
Init ==
    /\ store = {}
    /\ pre = {}
    /\ op = "none"
    /\ arg = <<>>
    /\ wire = <<>>
    /\ resp = <<>>
    /\ ret = [kind |-> "none"]
    /\ defaults = [p \in AgentParams |-> <<>>]
    /\ held = [request |-> <<>>, last |-> <<>>, earlier |-> <<>>]
    /\ seen = {}

\* a call that does not talk to the engine
Pure(name, a, value) ==
    /\ op' = name
    /\ arg' = a
    /\ ret' = [kind |-> "return", value |-> value]
    /\ wire' = <<>>
    /\ resp' = <<>>
    /\ pre' = store
    /\ UNCHANGED <<store, defaults, held, seen>>

\* a call that ran against the engine and ended as `run` says
Ran(name, a, run) ==
    /\ op' = name
    /\ arg' = a
    /\ ret' = IF run.kind = "return"
              THEN [kind |-> "return", value |-> run.value]
              ELSE [kind |-> "raise", exc |-> run.exc] @@
                   (IF "sample" \in DOMAIN run THEN "sample" :> run.sample ELSE EmptyDict)
    /\ wire' = run.wire
    /\ resp' = run.resp
    /\ pre' = store
    /\ store' = run.store
    /\ UNCHANGED <<defaults, held, seen>>

CriteriaFiltersCall ==
    /\ op = "none"
    /\ \E c \in Criterias :
        LET value == CriteriaFilters(c) IN Pure("_criteria_filters", c, value)

MultiMatchClauseCall ==
    /\ op = "none"
    /\ \E tq \in TextQueries :
        LET value == MultiMatchClause(tq) IN Pure("_multi_match_clause", tq, value)

BuildBoolQueryCall ==
    /\ op = "none"
    /\ \E request \in Requests :
        LET value == BuildBoolQuery(request) IN Pure("build_bool_query", request, value)

Search ==
    /\ op = "none"
    /\ \E request \in SearchRequests, facets \in BOOLEAN :
        LET body == SearchBody(request, facets, <<>>)
        IN  \E r \in SearchResponses(body) :
                LET run == [kind |-> "return", store |-> store, wire |-> <<body>>,
                            resp |-> <<r>>, value |-> Envelope(r, body)]
                IN  Ran("search", [request |-> request, facets |-> facets], run)

UpsertMemo ==
    /\ op = "none"
    /\ \E p \in Pairs, transportFails \in BOOLEAN :
        LET run == UpsertMemoRun(store, p[1], p[2], transportFails)
        IN  Ran("upsert_memo", [doc_id |-> p[1], doc |-> p[2]], run)

BulkUpsert ==
    /\ op = "none"
    /\ \E docs \in SeqsUpTo(Pairs, MaxBatch), chunk_size \in 1..MaxChunk :
        \E failAt \in 0..NumChunks(Len(docs), chunk_size) :
            LET run == BulkUpsertRun(store, docs, chunk_size, failAt)
            IN  Ran("bulk_upsert",
                    [docs |-> docs, chunk_size |-> chunk_size, failAt |-> failAt], run)

\* main, lines 108-116: bulk_index on the lines of a non-empty memo list
BulkIndex ==
    /\ op = "none"
    /\ \E memos \in SeqsUpTo(Memos, MaxMemos) \ {<<>>}, httpFails \in BOOLEAN :
        LET lines == AllBulkLines(memos)
            run == BulkIndexRun(store, lines, httpFails)
        IN  Ran("bulk_index", [memos |-> memos, ndjson_lines |-> lines], run)

\* the arguments a caller gives build_agent_request: each list parameter
\* omitted, empty or with a value
AgentArgs == UNION {[K -> {<<>>, <<"Healthcare">>}] : K \in SUBSET AgentParams}

\* request dicts a caller makes by hand and keeps
KeptRequests ==
    {c @@ sh @@ t :
        c \in OptKey("criteria", {PyDict([industry |-> PyList(<<"Healthcare">>)])}),
        sh \in OptKey("should_text", {PyNone, PyList(<<TqPlain, TqBoosted>>)}),
        t \in OptKey("minimum_should_match", {PyInt(MaxMsm)})}

\* what a call leaves on the caller's side: the request object as it now
\* stands, the tree just compiled from it and the one compiled before
Keeps(name, request, tree, before) ==
    /\ held' = [request |-> <<RequestAfterCompile(request)>>,
                last |-> tree, earlier |-> before]
    /\ seen' = seen \cup {name}

\* build_agent_request(...); the caller keeps the request, dumped
BuildAgentRequestCall ==
    /\ op = "none"
    /\ \E given \in AgentArgs, size \in {PyInt(10), PyInt(LargeInt)} :
        LET req == AgentRequest(defaults, given, size)
        IN  /\ op' = "build_agent_request"
            /\ arg' = [given |-> given, size |-> size]
            /\ ret' = [kind |-> "return", value |-> req]
            /\ defaults' = DefaultsAfterBuild(defaults, given)
            /\ held' = [request |-> <<ModelDump(req)>>, last |-> <<>>, earlier |-> <<>>]
            /\ seen' = seen \cup {"build_agent_request"}
            /\ wire' = <<>>
            /\ resp' = <<>>
            /\ pre' = store
            /\ UNCHANGED store

\* build_bool_query on a request dict the caller made and keeps
BuildBoolQueryKept ==
    /\ op = "none"
    /\ \E request \in KeptRequests :
        LET value == BuildBoolQuery(request)
        IN  /\ op' = "build_bool_query"
            /\ arg' = request
            /\ ret' = [kind |-> "return", value |-> value]
            /\ Keeps("build_bool_query", request, <<value>>, <<>>)
            /\ wire' = <<>>
            /\ resp' = <<>>
            /\ pre' = store
            /\ UNCHANGED <<store, defaults>>

\* build_bool_query once more on the request the caller kept
BuildBoolQueryAgain ==
    /\ op = "none"
    /\ held.request # <<>>
    /\ LET request == held.request[1]
           value == BuildBoolQuery(request)
       IN  /\ op' = "build_bool_query"
           /\ arg' = request
           /\ ret' = [kind |-> "return", value |-> value]
           /\ Keeps("build_bool_query", request, <<value>>, held.last)
           /\ wire' = <<>>
           /\ resp' = <<>>
           /\ pre' = store
           /\ UNCHANGED <<store, defaults>>

\* search on the request the caller kept (as agent_search does, line 297)
SearchKept ==
    /\ op = "none"
    /\ held.request # <<>>
    /\ \E facets \in BOOLEAN :
        LET request == held.request[1]
            body == SearchBody(request, facets, <<>>)
        IN  \E r \in SearchResponses(body) :
                /\ op' = "search"
                /\ arg' = [request |-> request, facets |-> facets]
                /\ ret' = [kind |-> "return", value |-> Envelope(r, body)]
                /\ Keeps("search", request, <<body["query"]>>, held.last)
                /\ wire' = <<body>>
                /\ resp' = <<r>>
                /\ pre' = store
                /\ UNCHANGED <<store, defaults>>

\* the caller takes the outcome; the client is free for the next call
Return ==
    /\ op # "none"
    /\ op' = "none"
    /\ arg' = <<>>
    /\ wire' = <<>>
    /\ resp' = <<>>
    /\ ret' = [kind |-> "none"]
    /\ pre' = store
    /\ UNCHANGED <<store, defaults, held, seen>>

QueryCalls == CriteriaFiltersCall \/ MultiMatchClauseCall \/ BuildBoolQueryCall \/ Search

IngestCalls == UpsertMemo \/ BulkUpsert \/ BulkIndex

NextQuery == Return \/ QueryCalls

NextIngest == Return \/ IngestCalls

KeptCalls == BuildAgentRequestCall \/ BuildBoolQueryKept \/ BuildBoolQueryAgain \/ SearchKept

NextKept == Return \/ KeptCalls

Next == Return \/ QueryCalls \/ IngestCalls \/ KeptCalls

Spec == Init /\ [][Next]_vars

\* the query compiler and the search executor alone
SpecQuery == Init /\ [][NextQuery]_vars

\* the ingestion paths alone
SpecIngest == Init /\ [][NextIngest]_vars

\* a caller that builds requests, keeps them, and compiles and searches
\* with them again and again
SpecKept == Init /\ [][NextKept]_vars

(***************************************************************************)
(* Properties                                                              *)
(***************************************************************************)

\* a key that is absent, None or an empty list
EmptyList(d, k) ==
    \/ k \notin DOMAIN d
    \/ d[k].t = "None"
    \/ d[k].t = "list" /\ d[k].v = <<>>

\* the threshold the caller supplied (1 when the request has none)
SuppliedMsm(request) ==
    IF "minimum_should_match" \in DOMAIN request
    THEN request["minimum_should_match"] ELSE PyInt(1)

MsmCorrected(request, query) ==
    LET msm == query.bool.minimum_should_match
    IN  IF EmptyList(request, "should_text")
        THEN msm = PyInt(0)
        ELSE msm = SuppliedMsm(request)

\* C1: the compiled minimum_should_match is 0 when should_text is empty,
\* absent or None, whatever the caller supplied, and the caller's value
\* unchanged otherwise; for build_bool_query and for the query search sends.
C1_MsmCorrection ==
    /\ op = "build_bool_query" => MsmCorrected(arg, ret.value)
    /\ op = "search" => MsmCorrected(arg.request, wire[1]["query"])

\* C1 witness: a large threshold with should_text None is compiled to 0
C1_Witness ==
    /\ op = "build_bool_query"
    /\ "should_text" \in DOMAIN arg /\ arg["should_text"].t = "None"
    /\ "minimum_should_match" \in DOMAIN arg
    /\ arg["minimum_should_match"] = PyInt(LargeInt)
    /\ ret.value.bool.minimum_should_match = PyInt(0)

FacetSet == {"industry", "sector", "region", "currency"}

\* the positions of the clauses of filters that filter on field f
ClausesOn(filters, f) == {i \in 1..Len(filters) : f \in DOMAIN filters[i].terms}

FiltersMatch(criteria, filters) ==
    /\ \A f \in FacetSet :
          IF EmptyList(criteria, f)
          THEN ClausesOn(filters, f) = {}
          ELSE /\ Cardinality(ClausesOn(filters, f)) = 1
               /\ \A i \in ClausesOn(filters, f) : filters[i].terms = (f :> criteria[f])
    /\ \A i \in 1..Len(filters) : DOMAIN filters[i].terms \subseteq FacetSet

\* C2: per facet field, no filter clause when the value set is empty (or
\* absent or None), exactly one terms clause with exactly the supplied
\* values otherwise; no clause ever filters on another key.
C2_CriteriaFilters ==
    /\ op = "_criteria_filters" => FiltersMatch(arg, ret.value)
    /\ op = "build_bool_query" =>
          FiltersMatch(IF "criteria" \in DOMAIN arg /\ arg["criteria"].t = "dict"
                       THEN arg["criteria"].v ELSE EmptyDict,
                       ret.value.bool.filter)

\* C2 witness: an unknown key with values, one facet with values, one empty
C2_Witness ==
    /\ op = "_criteria_filters"
    /\ "country" \in DOMAIN arg /\ ~EmptyList(arg, "country")
    /\ ~EmptyList(arg, "sector")
    /\ "industry" \in DOMAIN arg /\ arg["industry"] = PyList(<<>>)
    /\ DOMAIN arg = {"country", "sector", "industry"}
    /\ Len(ret.value) = 1

Without(d, k) == [x \in DOMAIN d \ {k} |-> d[x]]

\* C3: a boost key is in the compiled clause exactly when the text query
\* carries a boost that is not None and differs from 1.0, and then it is the
\* supplied value; with boost 1.0 the clause is the one compiled for the same
\* text query without a boost.
C3_BoostEquivalence ==
    op = "_multi_match_clause" =>
        LET mm == ret.value.multi_match
            given == "boost" \in DOMAIN arg /\ arg["boost"].t # "None"
        IN  /\ ("boost" \in DOMAIN mm) <=> (given /\ arg["boost"].v # 1)
            /\ "boost" \in DOMAIN mm => mm["boost"] = arg["boost"]
            /\ (given /\ arg["boost"].v = 1) =>
                   ret.value = MultiMatchClause(Without(arg, "boost"))

\* C3 witness: a text query with boost 1.0 compiled without a boost key
C3_Witness ==
    /\ op = "_multi_match_clause"
    /\ "boost" \in DOMAIN arg /\ arg["boost"] = PyInt(1)
    /\ "boost" \notin DOMAIN ret.value.multi_match

\* the positions of the documents of a batch the engine rejects
RejectedAt(docs) == {i \in 1..Len(docs) : Rejects(docs[i][2])}

\* the actions of all the chunks sent, in order
RECURSIVE Flatten(_)
Flatten(chunks) == IF chunks = <<>> THEN <<>> ELSE Head(chunks) \o Flatten(Tail(chunks))

\* the error entry e is the engine's refusal of the pair p
RefersTo(e, p) ==
    /\ DOMAIN e = {"index"}
    /\ e["index"]["_id"] = p[1]
    /\ e["index"]["error"].reason = <<p[1], p[2]>>

\* C4: when the engine answers every chunk and rejects exactly document k,
\* bulk_upsert returns, every chunk was submitted (the chunks after k's
\* too), and the outcome has N-1 successes and one error entry, document k's.
C4_LenientPartialFailure ==
    (op = "bulk_upsert" /\ arg.failAt = 0 /\ Cardinality(RejectedAt(arg.docs)) = 1) =>
        LET N == Len(arg.docs)
            k == CHOOSE i \in RejectedAt(arg.docs) : TRUE
            sent == Flatten(wire)
        IN  /\ ret.kind = "return"
            /\ Len(wire) = NumChunks(N, arg.chunk_size)
            /\ Len(sent) = N
            /\ \A i \in 1..N : sent[i]["_id"] = arg.docs[i][1] /\ sent[i]["_source"] = arg.docs[i][2]
            /\ ret.value.success = N - 1
            /\ Len(ret.value.errors) = 1
            /\ RefersTo(ret.value.errors[1], arg.docs[k])

\* C4 witness: three documents in chunks of one, the first rejected
C4_Witness ==
    /\ op = "bulk_upsert" /\ arg.failAt = 0
    /\ Len(arg.docs) = 3 /\ arg.chunk_size = 1
    /\ RejectedAt(arg.docs) = {1}
    /\ Len(wire) = 3
    /\ ret.kind = "return" /\ ret.value.success = 2

\* C5: when the engine answers every chunk, the outcome of bulk_upsert and
\* the engine's contents after it are those of the same batch, from the same
\* contents, under every other chunk size (1, the batch length, larger).
C5_ChunkSizeIndependence ==
    (op = "bulk_upsert" /\ arg.failAt = 0) =>
        \A cs \in 1..(MaxBatch + 1) :
            LET other == BulkUpsertRun(pre, arg.docs, cs, 0)
            IN  /\ other.kind = ret.kind
                /\ ret.kind = "return" => other.value = ret.value
                /\ other.store = store

\* C5 witness: a batch of three with a rejected document, in chunks of two
C5_Witness ==
    /\ op = "bulk_upsert" /\ arg.failAt = 0
    /\ Len(arg.docs) = 3 /\ arg.chunk_size = 2
    /\ RejectedAt(arg.docs) = {2}
    /\ ret.kind = "return" /\ ret.value.success = 2 /\ Len(ret.value.errors) = 1
    /\ store # pre

\* the error payloads of the erroring items of a bulk response, in order
RECURSIVE ErrorPayloads(_)
ErrorPayloads(items) ==
    IF items = <<>> THEN <<>>
    ELSE LET info == Head(items)["index"]
         IN  (IF "error" \in DOMAIN info THEN <<info["error"]>> ELSE <<>>)
             \o ErrorPayloads(Tail(items))

Prefix(s, n) == SubSeq(s, 1, IF Len(s) < n THEN Len(s) ELSE n)

MalformedAt(memos) == {i \in 1..Len(memos) : Rejects(memos[i])}

\* C6: when the engine answers the bulk request, bulk_index raises exactly
\* when an item of the response carries an error; the sample is the first
\* error payloads in response order, at most 3; with exactly one malformed
\* memo k the sample is memo k's error.
C6_StrictSample ==
    (op = "bulk_index" /\ resp # <<>>) =>
        LET errs == ErrorPayloads(resp[1].items)
        IN  /\ (ret.kind = "raise") <=> (errs # <<>>)
            /\ ret.kind = "return" => ret.value = PyNone
            /\ ret.kind = "raise" =>
                  /\ ret.exc = "RuntimeError"
                  /\ Len(ret.sample) <= 3
                  /\ ret.sample = Prefix(errs, 3)
            /\ Cardinality(MalformedAt(arg.memos)) = 1 =>
                  LET k == CHOOSE i \in MalformedAt(arg.memos) : TRUE
                  IN  /\ ret.kind = "raise"
                      /\ ret.sample = <<resp[1].items[k]["index"]["error"]>>
                      /\ ret.sample[1].reason = <<arg.memos[k]["memoId"], arg.memos[k]>>

\* C6 witness: four malformed memos, a sample of three
C6_Witness ==
    /\ op = "bulk_index" /\ resp # <<>>
    /\ Len(arg.memos) = 4 /\ MalformedAt(arg.memos) = 1..4
    /\ ret.kind = "raise" /\ Len(ret.sample) = 3

\* the documents stored under id
StoredUnder(st, id) == {d._source : d \in {e \in st : e._id = id}}

\* the writes (id, source) of a batch leave, under every id, the source of
\* the last write the engine accepted, and what was there before otherwise
LastWriteWins(before, after, writes) ==
    \A id \in DocIds :
        LET accepted == {i \in 1..Len(writes) : writes[i][1] = id /\ ~Rejects(writes[i][2])}
        IN  IF accepted = {}
            THEN StoredUnder(after, id) = StoredUnder(before, id)
            ELSE StoredUnder(after, id) =
                     {writes[CHOOSE i \in accepted : \A j \in accepted : j <= i][2]}

\* C7: every id has at most one stored document, and after upsert_memo,
\* bulk_upsert or bulk_index the document under an id is the content of the
\* last write to that id the engine accepted (the second of two).
C7_UpsertIdempotence ==
    /\ \A id \in DocIds : Cardinality(StoredUnder(store, id)) <= 1
    /\ (op = "upsert_memo" /\ ret.kind = "return") =>
          LastWriteWins(pre, store, <<(<<arg.doc_id, arg.doc>>)>>)
    /\ (op = "bulk_upsert" /\ ret.kind = "return") =>
          LastWriteWins(pre, store, arg.docs)
    /\ (op = "bulk_index" /\ resp # <<>>) =>
          LastWriteWins(pre, store, [i \in 1..Len(arg.memos) |->
                                        <<arg.memos[i]["memoId"], arg.memos[i]>>])

\* C7 witness: one batch writes an id twice with different content, over a
\* stored document with the first content; the second content is stored
C7_Witness ==
    /\ op = "bulk_upsert" /\ ret.kind = "return"
    /\ Len(arg.docs) = 2
    /\ arg.docs[1][1] = arg.docs[2][1]
    /\ arg.docs[1][2] # arg.docs[2][2]
    /\ RejectedAt(arg.docs) = {}
    /\ StoredUnder(pre, arg.docs[1][1]) = {arg.docs[1][2]}
    /\ StoredUnder(store, arg.docs[1][1]) = {arg.docs[2][2]}

\* what the engine reported as hits.total, if it reported one
ReportedTotal(r) == Get(r["hits"], "total", PyNone)

\* C8: the total of the envelope search returns is an integer, for every
\* response of the engine: the bare number reported, or the value field of
\* the structure reported.
C8_TotalIsInteger ==
    op = "search" =>
        LET total == ret.value.total
            reported == ReportedTotal(resp[1])
        IN  /\ total.t = "int"
            /\ reported.t = "int" => total = reported
            /\ reported.t = "dict" => total = reported.v.value

\* C9 as claimed: bulk_upsert never ends by raising
C9_LenientNeverRaises ==
    op = "bulk_upsert" => ret.kind = "return"

\* C9, amended: bulk_upsert raises exactly when the request of one of its
\* chunks fails in transport, and then with that transport error; whatever
\* documents the engine rejects, it returns an outcome with a success count
\* and an error list that account for the whole batch.  bulk_index raises
\* when the response reports errors.
C9_LenientReturnsUnlessTransportFails ==
    /\ op = "bulk_upsert" =>
          /\ (ret.kind = "raise") <=> (arg.failAt # 0)
          /\ ret.kind = "raise" => ret.exc = "TransportError"
          /\ ret.kind = "return" =>
                /\ DOMAIN ret.value = {"success", "errors"}
                /\ ret.value.success \in 0..Len(arg.docs)
                /\ ret.value.success + Len(ret.value.errors) = Len(arg.docs)
                /\ Len(ret.value.errors) = Cardinality(RejectedAt(arg.docs))
    /\ (op = "bulk_index" /\ resp # <<>> /\ resp[1].errors) => ret.kind = "raise"

\* C9 witness: a batch the engine rejects whole, returned as an outcome
C9_Witness ==
    /\ op = "bulk_upsert" /\ arg.failAt = 0
    /\ Len(arg.docs) = MaxBatch /\ RejectedAt(arg.docs) = 1..MaxBatch
    /\ ret.kind = "return" /\ ret.value.success = 0
    /\ Len(ret.value.errors) = MaxBatch

\* C10: the payload search sends has the request's size and offset as
\* supplied (the offset under 'from_', or else under 'from'), and 10 and 0
\* only when the request has no such key; the envelope shows that payload.
C10_PaginationPassThrough ==
    op = "search" =>
        LET body == wire[1]
            rq == arg.request
        IN  /\ body["size"] = IF "size" \in DOMAIN rq THEN rq["size"] ELSE PyInt(10)
            /\ body["from"] = IF "from_" \in DOMAIN rq THEN rq["from_"]
                              ELSE IF "from" \in DOMAIN rq THEN rq["from"]
                              ELSE PyInt(0)
            /\ ret.value.query = body

\* C10 witness: a negative offset under 'from' and a very large size
C10_Witness ==
    /\ op = "search"
    /\ "from_" \notin DOMAIN arg.request
    /\ "from" \in DOMAIN arg.request /\ arg.request["from"] = PyInt(-1)
    /\ "size" \in DOMAIN arg.request /\ arg.request["size"] = PyInt(LargeInt)
    /\ wire[1]["from"] = PyInt(-1) /\ wire[1]["size"] = PyInt(LargeInt)

\* a request that filters on nothing and has no should clause
EmptyAgentRequest(req) ==
    /\ \A f \in FacetSet : req["criteria"].v[f] = PyList(<<>>)
    /\ req["should_text"] = PyList(<<>>)

C11_WitnessRecompiled ==
    /\ op = "search"
    /\ held.earlier # <<>>
    /\ "build_bool_query" \in seen
    /\ "minimum_should_match" \in DOMAIN arg.request
    /\ arg.request["minimum_should_match"] = PyInt(MaxMsm)
    /\ EmptyList(arg.request, "should_text")
    /\ held.last[1].bool.minimum_should_match = PyInt(0)

=============================================================================
